---- MODULE Spec2Model ----
(***************************************************************************)
(* A model of NewRelicPythonAgent (newrelic_python_agent/agent.py): the    *)
(* polling cycle process(), the instance registry, the plugin threads and  *)
(* their two result queues, min/max derivation, batching, configuration    *)
(* reconciliation, the clean-up of saved values and the interval pacing.   *)
(*                                                                         *)
(* Strings that take part in name construction are modelled as the         *)
(* sequence of their ':'-separated fields with the separators kept, e.g.   *)
(* "m:a" is <<"m", ":", "a">>; "%s:%s" formatting is concatenation with    *)
(* <<":">> in between, so two different (block, name) pairs can spell the  *)
(* same string exactly when they do in Python.                             *)
(* None is <<>> and a present number v is <<v>>.                           *)
(***************************************************************************)
EXTENDS Integers, Sequences, FiniteSets, TLC

VARIABLES
    is_py2,                \* the interpreter the agent runs under (agent.py:26)
    config,                \* self.config.application, in iteration order
    thread_names,          \* keys of self.thread_names
    threads,               \* self.threads
    running,               \* the started threads that have not finished yet
    publish_queue,         \* self.publish_queue
    config_queue,          \* self.config_queue
    derive_last_interval,  \* self.derive_last_interval
    config_last_result,    \* self.config_last_result
    clean_values,          \* self.clean_values
    min_max_values,        \* self.min_max_values, keyed <<guid, name, metric>>
    configured_interval,   \* self._wake_interval
    next_wake_interval,    \* self.next_wake_interval
    pc,                    \* where the controlling flow is inside process()
    cycle,                 \* number of process() calls started
    reloads,               \* number of configuration_reloaded() calls
    sent,                  \* the send_components calls of the current cycle
    posts,                 \* the requests.post calls of the current cycle
    obs                    \* observations of the run used to state properties

vars == <<is_py2, config, thread_names, threads, running, publish_queue,
          config_queue, derive_last_interval, config_last_result,
          clean_values, min_max_values, configured_interval,
          next_wake_interval, pc, cycle,
          reloads, sent, posts, obs>>

(***************************************************************************)
(* Bounds of the model.                                                    *)
(***************************************************************************)
MaxCycles == 3
MaxReloads == 1

\* times are whole numbers of 1/Resolution second
Resolution == 2

(***************************************************************************)
(* Program constants.                                                      *)
(***************************************************************************)
MAX_SIZE_PER_REQUEST == 750 * 1024
MAX_METRICS_PER_REQUEST == 10000
WAKE_INTERVAL == 60
IGNORE_KEYS == { <<"license_key">>, <<"proxy">>, <<"endpoint">>,
                 <<"verify_ssl_cert">>, <<"poll_interval">>,
                 <<"wake_interval">>, <<"newrelic_api_timeout">>,
                 <<"skip_newrelic_upload">> }

None == <<>>
Some(v) == <<v>>

\* a time of n seconds
Seconds(n) == n * Resolution

\* int(x) of a time x >= 0: the whole seconds of x
IntPart(x) == (x \div Resolution) * Resolution

(***************************************************************************)
(* Generic helpers on sequences and optional numbers.                      *)
(***************************************************************************)
Range(s) == { s[i] : i \in 1..Len(s) }

RECURSIVE SeqSum(_)
SeqSum(s) == IF s = <<>> THEN 0 ELSE Head(s) + SeqSum(Tail(s))

SetMin(S) == CHOOSE x \in S : \A y \in S : x <= y
SetMax(S) == CHOOSE x \in S : \A y \in S : x >= y

(***************************************************************************)
(* "%i" % i: the decimal digits of a natural number, as one field.         *)
(***************************************************************************)
Digit(d) == <<"0", "1", "2", "3", "4", "5", "6", "7", "8", "9">>[d + 1]

RECURSIVE FormatInt(_)
FormatInt(i) ==
    IF i < 10 THEN Digit(i) ELSE FormatInt(i \div 10) \o Digit(i % 10)

(***************************************************************************)
(* The application configuration: a dict, modelled as the sequence of its  *)
(* items [key, val] in iteration order. A block value is the list of its   *)
(* instance configs (a single dict is the one-element list, as line 153    *)
(* makes it); the empty list is the empty (falsy) config. An instance      *)
(* config is [has_name, name].                                             *)
(***************************************************************************)
Keys(d) == { d[i].key : i \in 1..Len(d) }

Has(d, k) == k \in Keys(d)

Get(d, k) == (CHOOSE i \in 1..Len(d) : d[i].key = k)

Lookup(d, k) == d[Get(d, k)].val

\* an assignment of {k: v} in the place of dict.update({k: v})
UpdateAssigns(d, k, v) == << [key |-> k, val |-> v] >>

\* dict.update({k: v}): overwrite in place, or insert at the end
Update(d, k, v) ==
    IF Has(d, k)
    THEN [d EXCEPT ![Get(d, k)] = [key |-> k, val |-> v]]
    ELSE Append(d, [key |-> k, val |-> v])

\* a pop that leaves the dict as it is
PopKeeps(d, k) == d

\* dict.pop(k)
Pop(d, k) == LET Other(e) == e.key # k IN SelectSeq(d, Other)

Unnamed == [has_name |-> FALSE, name |-> <<>>]
Named(s) == [has_name |-> TRUE, name |-> s]

\* instance.get('name', 'unnamed')
InstanceGetName(instance) ==
    IF instance.has_name THEN instance.name ELSE <<"unnamed">>

(***************************************************************************)
(* get_instance_name                                                       *)
(***************************************************************************)
\* get_instance_name without the loop of lines 136-138
FirstSuffixOnly(names, name, i) == name \o <<":">> \o <<FormatInt(i)>>

RECURSIVE FirstFreeSuffix(_, _, _)
FirstFreeSuffix(names, name, i) ==
    LET instance_name == name \o <<":">> \o <<FormatInt(i)>>
    IN  IF instance_name \in names
        THEN FirstFreeSuffix(names, name, i + 1)
        ELSE instance_name

get_instance_name(names, plugin_name, instance) ==
    LET name == plugin_name \o <<":">> \o InstanceGetName(instance)
    IN  FirstFreeSuffix(names, name, 0)

(***************************************************************************)
(* start_plugins / start_plugin: the registry pass of one cycle.           *)
(* The name -> class table plugins.available and importlib are outside the *)
(* agent; a small table stands for them: "prometheus" is a metric plugin,  *)
(* "discovery" a config plugin (a subclass of base.ConfigPlugin),          *)
(* "ext.Plugin" an importable qualified metric class; any other name does  *)
(* not resolve.                                                            *)
(***************************************************************************)
\* plugin.split(":", 1)[0]
PluginName(key) == IF key = <<>> THEN "" ELSE Head(key)

PluginClass(key) ==
    CASE PluginName(key) = "prometheus" -> "metric"
      [] PluginName(key) = "discovery"  -> "config"
      [] PluginName(key) = "ext.Plugin" -> "metric"
      [] OTHER                          -> "none"

\* the threads start_plugin creates for one block, given the names in use
RECURSIVE start_plugin(_, _, _, _)
start_plugin(names, key, kind, instances) ==
    IF instances = <<>> THEN <<>>
    ELSE LET instance_name == get_instance_name(names, key, Head(instances))
             thread == [name |-> instance_name, block |-> key, kind |-> kind]
         IN  <<thread>> \o
             start_plugin(names \cup {instance_name}, key, kind, Tail(instances))

\* the threads start_plugins creates for the items of the configuration
RECURSIVE StartBlocks(_, _)
StartBlocks(names, items) ==
    IF items = <<>> THEN <<>>
    ELSE LET key == Head(items).key
             val == Head(items).val
             skip == \/ key \in IGNORE_KEYS
                     \/ val = <<>>
                     \/ PluginClass(key) = "none"
             started == IF skip THEN <<>>
                        ELSE start_plugin(names, key, PluginClass(key), val)
         IN  started \o
             StartBlocks(names \cup { started[i].name : i \in 1..Len(started) },
                         Tail(items))

\* start_plugins without the reset of line 411
KeepThreadNames(names) == names

\* line 411: the names in use at the top of the registry pass
ResetThreadNames(names) == {}

start_plugins(names, cfg) == StartBlocks(ResetThreadNames(names), cfg)

\* threads_running that returns after looking at the first thread only
threads_running_first(ths, alive) == ths # <<>> /\ ths[1] \in alive

\* threads_running: some thread of self.threads is alive
threads_running(ths, alive) == \E i \in 1..Len(ths) : ths[i] \in alive

(***************************************************************************)
(* Finite maps (dicts whose order does not matter).                        *)
(***************************************************************************)
EmptyMap == [k \in {} |-> 0]

Put(f, k, v) == [x \in (DOMAIN f) \cup {k} |-> IF x = k THEN v ELSE f[x]]

Restrict(f, S) == [x \in (DOMAIN f) \cap S |-> f[x]]

(***************************************************************************)
(* process_min_max_values. A component is                                  *)
(*   [guid, name, metrics, others, size]                                   *)
(* where metrics maps the metric names the model follows to samples        *)
(* [total, min, max], others counts the further metrics of the component   *)
(* that the model does not follow one by one, and size is the length of    *)
(* the component's JSON text.                                              *)
(***************************************************************************)
\* lines 249-250
MinUpdate(min_val, value) ==
    IF min_val # None /\ min_val[1] > value THEN Some(value) ELSE min_val

\* lines 252-253 with the comparison the wrong way round
MaxUpdateFlipped(max_val, value) ==
    IF max_val = None \/ max_val[1] > value THEN Some(value) ELSE max_val

\* lines 252-253
MaxUpdate(max_val, value) ==
    IF max_val = None \/ max_val[1] < value THEN Some(value) ELSE max_val

\* Python's  min_val or value : the right operand when the left is None or 0
OrValue(opt, value) == IF opt = None \/ opt[1] = 0 THEN value ELSE opt[1]

\* lines 255-256
FillMin(sample, min_val) ==
    IF sample.min = None THEN Some(OrValue(min_val, sample.total)) ELSE sample.min

\* lines 258-259
FillMax(sample, max_val) ==
    IF sample.max = None THEN max_val ELSE sample.max

MetricKeys(component) ==
    { <<component.guid, component.name, m>> : m \in DOMAIN component.metrics }

\* self.min_max_values[guid][name].get(metric, (None, None))
MinMaxGet(mm, key) == IF key \in DOMAIN mm THEN mm[key] ELSE <<None, None>>

process_min_max_values(mm, component) ==
    LET Key(m) == <<component.guid, component.name, m>>
        NewEntry(m) ==
            <<MinUpdate(MinMaxGet(mm, Key(m))[1], component.metrics[m].total),
              MaxUpdate(MinMaxGet(mm, Key(m))[2], component.metrics[m].total)>>
    IN  [mm |-> [k \in (DOMAIN mm) \cup MetricKeys(component) |->
                    IF k \in MetricKeys(component) THEN NewEntry(k[3]) ELSE mm[k]],
         component |->
            [component EXCEPT !.metrics =
                [m \in DOMAIN component.metrics |->
                    [total |-> component.metrics[m].total,
                     min |-> FillMin(component.metrics[m], NewEntry(m)[1]),
                     max |-> FillMax(component.metrics[m], NewEntry(m)[2])]]]]

(***************************************************************************)
(* send_data_to_newrelic and send_components.                              *)
(***************************************************************************)
\* len(component['metrics'].keys())
MetricCount(component) == Cardinality(DOMAIN component.metrics) + component.others

\* len(json.dumps(component, ensure_ascii=False))
JsonLen(component) == component.size

\* line 332 with > in the place of >=
LimitReachedStrict(metrics, size) ==
    metrics > MAX_METRICS_PER_REQUEST \/ size > MAX_SIZE_PER_REQUEST

\* line 332
LimitReached(metrics, size) ==
    metrics >= MAX_METRICS_PER_REQUEST \/ size >= MAX_SIZE_PER_REQUEST

\* the (instance name, component) pairs of the queue in arrival order
RECURSIVE QueueComponents(_)
QueueComponents(queue) ==
    IF queue = <<>> THEN <<>>
    ELSE [i \in 1..Len(Head(queue).data) |->
             [name |-> Head(queue).name, component |-> Head(queue).data[i]]]
         \o QueueComponents(Tail(queue))

\* dict.get(k): the value under k, or None
MapGet(f, k) == IF k \in DOMAIN f THEN Some(f[k]) ELSE None

\* line 322 with setdefault in the place of the assignment: the first value
\* stored under a name stays
RECURSIVE StoreFirstValues(_, _)
StoreFirstValues(last, queue) ==
    IF queue = <<>> THEN last
    ELSE StoreFirstValues(IF Head(queue).name \in DOMAIN last THEN last
                          ELSE Put(last, Head(queue).name,
                                   Head(queue).last_values),
                          Tail(queue))

\* line 322 for every item of the queue
RECURSIVE StoreLastValues(_, _)
StoreLastValues(last, queue) ==
    IF queue = <<>> THEN last
    ELSE StoreLastValues(Put(last, Head(queue).name, Head(queue).last_values),
                         Tail(queue))

\* lines 327-336 for one component; st is the state of the loop
\* [mm, components, metrics, size, calls, seen, derived, producers]
BatchStep(st, name, component) ==
    LET r == process_min_max_values(st.mm, component)
        components == Append(st.components, r.component)
        size == st.size + JsonLen(r.component)
        metrics == st.metrics + MetricCount(r.component)
        flush == LimitReached(metrics, size)
        seen == [k \in (DOMAIN st.seen) \cup MetricKeys(component) |->
                    (IF k \in DOMAIN st.seen THEN st.seen[k] ELSE {}) \cup
                    (IF k \in MetricKeys(component)
                     THEN {component.metrics[k[3]].total} ELSE {})]
    IN  [mm |-> r.mm,
         components |-> IF flush THEN <<>> ELSE components,
         metrics |-> IF flush THEN 0 ELSE metrics,
         size |-> IF flush THEN 0 ELSE size,
         calls |-> IF flush
                   THEN Append(st.calls, [components |-> components,
                                          metrics |-> metrics,
                                          remainder |-> FALSE])
                   ELSE st.calls,
         seen |-> seen,
         derived |-> st.derived \cup
            { [key |-> k,
               total |-> component.metrics[k[3]].total,
               in_min |-> component.metrics[k[3]].min,
               in_max |-> component.metrics[k[3]].max,
               out_min |-> r.component.metrics[k[3]].min,
               out_max |-> r.component.metrics[k[3]].max,
               run_min |-> SetMin(seen[k]),
               run_max |-> SetMax(seen[k])] : k \in MetricKeys(component) },
         producers |-> [k \in (DOMAIN st.producers) \cup MetricKeys(component) |->
                    (IF k \in DOMAIN st.producers THEN st.producers[k] ELSE {}) \cup
                    (IF k \in MetricKeys(component) THEN {name} ELSE {})]]

RECURSIVE BatchLoop(_, _)
BatchLoop(st, pairs) ==
    IF pairs = <<>> THEN st
    ELSE BatchLoop(BatchStep(st, Head(pairs).name, Head(pairs).component),
                   Tail(pairs))

\* send_data_to_newrelic without lines 338-340
RemainderLost(st) == st.calls

\* lines 338-340
Remainder(st) ==
    IF st.metrics > 0
    THEN Append(st.calls, [components |-> st.components,
                           metrics |-> st.metrics,
                           remainder |-> TRUE])
    ELSE st.calls

\* the whole of send_data_to_newrelic
send_data_to_newrelic(mm, queue, seen, derived, producers) ==
    LET st == BatchLoop([mm |-> mm, components |-> <<>>, metrics |-> 0,
                         size |-> 0, calls |-> <<>>, seen |-> seen,
                         derived |-> derived, producers |-> producers],
                        QueueComponents(queue))
    IN  [st EXCEPT !.calls = Remainder(st)]

\* self.config.application.get('skip_newrelic_upload')
SkipUpload(cfg) ==
    Has(cfg, <<"skip_newrelic_upload">>) /\ Lookup(cfg, <<"skip_newrelic_upload">>) # <<>>

\* send_components without the test of lines 347-349
PostsAlways(cfg, call) == ~SkipUpload(cfg)

\* send_components: the call reaches requests.post
Posts(cfg, call) == call.metrics # 0 /\ ~SkipUpload(cfg)

\* how requests.post ends: a response, or one of the two exceptions that
\* lines 382-385 catch
Responds == "response"
ConnectionError == "ConnectionError"
Timeout == "Timeout"

\* send_components(call): the POST attempts it makes, each with how it ended
send_components(cfg, call, outcome) ==
    IF Posts(cfg, call) THEN << [call |-> call, outcome |-> outcome] >> ELSE <<>>

\* the send_components calls of one drain with an exception that is not
\* caught: the first failed attempt ends the drain
RECURSIVE SendAllUncaught(_, _, _)
SendAllUncaught(cfg, calls, outcomes) ==
    IF calls = <<>> THEN <<>>
    ELSE LET first == send_components(cfg, Head(calls), Head(outcomes))
         IN  IF first # <<>> /\ first[1].outcome # Responds
             THEN first
             ELSE first \o SendAllUncaught(cfg, Tail(calls), Tail(outcomes))

\* the send_components calls of one drain, in order; outcomes[i] is how the
\* POST of the i-th call ends if it is made
RECURSIVE SendAll(_, _, _)
SendAll(cfg, calls, outcomes) ==
    IF calls = <<>> THEN <<>>
    ELSE send_components(cfg, Head(calls), Head(outcomes))
         \o SendAll(cfg, Tail(calls), Tail(outcomes))

(***************************************************************************)
(* process_config_plugins. A config plugin result is                       *)
(*   [is_dict, application]                                                *)
(* where application is the dict of proposed blocks as a sequence of       *)
(* items [key, val]. The state of the loop is                              *)
(*   [config, clean_values, config_last_result, log]                       *)
(***************************************************************************)
\* line 287
Actionable(data) == data.is_dict /\ data.application # <<>>

\* lines 295-313 without the comparison of lines 298-299
ReconcileBlockNoCompare(st, name, key, val) ==
    IF val # <<>>
    THEN [st EXCEPT !.config = Update(@, key, val),
                    !.clean_values = TRUE,
                    !.log = Append(@, [name |-> name, key |-> key,
                                       action |-> "updated"])]
    ELSE IF Has(st.config, key)
         THEN [st EXCEPT !.config = Pop(@, key),
                         !.clean_values = TRUE,
                         !.log = Append(@, [name |-> name, key |-> key,
                                            action |-> "removed"])]
         ELSE st

\* lines 295-313 without the flag of line 310
ReconcileBlockQuietRemove(st, name, key, val) ==
    IF val # <<>>
    THEN IF Has(st.config, key) /\ Lookup(st.config, key) = val
         THEN [st EXCEPT !.log = Append(@, [name |-> name, key |-> key,
                                            action |-> "unchanged"])]
         ELSE [st EXCEPT !.config = Update(@, key, val),
                         !.clean_values = TRUE,
                         !.log = Append(@, [name |-> name, key |-> key,
                                            action |-> "updated"])]
    ELSE IF Has(st.config, key)
         THEN [st EXCEPT !.config = Pop(@, key),
                         !.log = Append(@, [name |-> name, key |-> key,
                                            action |-> "removed"])]
         ELSE st

\* lines 295-313 for one proposed block
ReconcileBlock(st, name, key, val) ==
    IF val # <<>>
    THEN IF Has(st.config, key) /\ Lookup(st.config, key) = val
         THEN [st EXCEPT !.log = Append(@, [name |-> name, key |-> key,
                                            action |-> "unchanged"])]
         ELSE [st EXCEPT !.config = Update(@, key, val),
                         !.clean_values = TRUE,
                         !.log = Append(@, [name |-> name, key |-> key,
                                            action |-> "updated"])]
    ELSE IF Has(st.config, key)
         THEN [st EXCEPT !.config = Pop(@, key),
                         !.clean_values = TRUE,
                         !.log = Append(@, [name |-> name, key |-> key,
                                            action |-> "removed"])]
         ELSE st

RECURSIVE ReconcileBlocks(_, _, _)
ReconcileBlocks(st, name, items) ==
    IF items = <<>> THEN st
    ELSE ReconcileBlocks(ReconcileBlock(st, name, Head(items).key, Head(items).val),
                         name, Tail(items))

\* lines 286-313 for one item of the queue
ReconcileResult(st, name, data) ==
    IF Actionable(data)
    THEN ReconcileBlocks([st EXCEPT !.config_last_result = Put(@, name, data)],
                         name, data.application)
    ELSE st

RECURSIVE ReconcileQueue(_, _)
ReconcileQueue(st, queue) ==
    IF queue = <<>> THEN st
    ELSE ReconcileQueue(ReconcileResult(st, Head(queue).name, Head(queue).data),
                        Tail(queue))

process_config_plugins(cfg, clean, last, queue) ==
    ReconcileQueue([config |-> cfg, clean_values |-> clean,
                    config_last_result |-> last, log |-> <<>>], queue)

(***************************************************************************)
(* clean_last_values. Under Python 2 keys() is a list and every entry of   *)
(* an unused name is popped. Under Python 3 keys() is a view of the dict:  *)
(* the pop of the first unused key makes the for statement raise           *)
(* RuntimeError, which leaves process().                                   *)
(***************************************************************************)
Unused(f, names) == (DOMAIN f) \ names

\* the names whose saved values the clean-up keeps
KeptNames(names) == names

CleanPy2(last, results, names) ==
    [derive_last_interval |-> Restrict(last, KeptNames(names)),
     config_last_result |-> Restrict(results, KeptNames(names)),
     clean_values |-> FALSE,
     raised |-> FALSE]

\* the outcomes under Python 3 (any unused key may be the first one met)
CleanPy3(last, results, names) ==
    IF Unused(last, names) # {}
    THEN { [derive_last_interval |-> Restrict(last, (DOMAIN last) \ {k}),
            config_last_result |-> results,
            clean_values |-> TRUE,
            raised |-> TRUE] : k \in Unused(last, names) }
    ELSE IF Unused(results, names) # {}
    THEN { [derive_last_interval |-> last,
            config_last_result |-> Restrict(results, (DOMAIN results) \ {k}),
            clean_values |-> TRUE,
            raised |-> TRUE] : k \in Unused(results, names) }
    ELSE { CleanPy2(last, results, names) }

clean_last_values(py2, last, results, names) ==
    IF py2 THEN { CleanPy2(last, results, names) }
    ELSE CleanPy3(last, results, names)

(***************************************************************************)
(* Interval pacing, lines 218-223.                                         *)
(***************************************************************************)
\* lines 219-223 without the reset of an overrun
NextWakeNoReset(interval, duration) == interval - duration

NextWake(interval, duration) ==
    IF interval - duration < Seconds(1)
    THEN IntPart(interval)
    ELSE interval - duration

(***************************************************************************)
(* The inputs of the model: initial configurations, what the plugins       *)
(* return, and how long a cycle takes.                                     *)
(***************************************************************************)
Prom == <<"prometheus">>
PromA == <<"prometheus", ":", "a">>
Disc == <<"discovery">>

Item(k, v) == [key |-> k, val |-> v]

Sample(total, min, max) == [total |-> total, min |-> min, max |-> max]

Component(name, metrics, others, size) ==
    [guid |-> "g1", name |-> name, metrics |-> metrics,
     others |-> others, size |-> size]

Cpu(total) == [m \in {"cpu"} |-> Sample(total, None, None)]

\* a config plugin and a metric block with one instance
ConfigOne == << Item(Disc, <<Unnamed>>), Item(Prom, <<Unnamed>>) >>

\* a config plugin and a metric block with two unnamed instances
ConfigTwo == << Item(Disc, <<Unnamed>>), Item(Prom, <<Unnamed, Unnamed>>) >>

\* a block whose name field spells the base name of a later block, an
\* ignored key, an empty block and a block that does not resolve
ConfigMixed ==
    << Item(<<"proxy">>, <<Unnamed>>),
       Item(Prom, <<Named(<<"a", ":", "unnamed">>)>>),
       Item(PromA, <<Unnamed, Unnamed>>),
       Item(<<"ext.Plugin">>, <<>>),
       Item(<<"nosuch">>, <<Unnamed>>) >>

NotADict == [is_dict |-> FALSE, application |-> <<>>]
Result(items) == [is_dict |-> TRUE, application |-> items]

\* inputs of Spec: the life of a block that a config plugin removes and adds
InitConfigs == { ConfigOne }

MetricOutputs == { <<>>, <<Component("n1", Cpu(3), 0, 120)>> }

ConfigResults ==
    { NotADict,
      Result(<< Item(Prom, <<>>) >>),
      Result(<< Item(PromA, <<Unnamed>>) >>) }

Durations == { Seconds(2) }

\* inputs of SpecLive: a config plugin that removes a block or proposes
\* nothing
LiveCycles == 2

LiveResults == { NotADict, Result(<< Item(Prom, <<>>) >>) }

\* inputs of SpecCarry: a config plugin that removes the metric block and
\* adds it again, so that an instance name goes and comes back
CarryCycles == 3

CarryResults ==
    { NotADict,
      Result(<< Item(Prom, <<>>) >>),
      Result(<< Item(Prom, <<Unnamed>>) >>) }

\* inputs of SpecRegistry: configurations with several instances per block
RegistryCycles == 2

RegistryConfigs == { ConfigTwo, ConfigMixed }

RegistryOutputs == { <<>> }

RegistryResults ==
    { NotADict,
      Result(<< Item(PromA, <<Unnamed, Unnamed>>) >>),
      Result(<< Item(Prom, <<Named(<<"a", ":", "unnamed">>)>>) >>) }

\* inputs of SpecMinMax: totals in every order, a key met twice in one
\* drain, two metrics in one component, a sample with its own min and max
MinMaxCycles == 3

MinMaxTotals == {0, 3, 5}

MinMaxOutputs ==
    { <<Component("n1", Cpu(t), 0, 120)>> : t \in MinMaxTotals } \cup
    { <<Component("n1", Cpu(5), 0, 120), Component("n1", Cpu(3), 0, 120)>>,
      <<Component("n1", [m \in {"cpu", "mem"} |->
                           IF m = "cpu" THEN Sample(3, None, None)
                           ELSE Sample(5, Some(1), Some(9))], 0, 200)>> }

\* inputs of SpecPace: configured intervals of whole and of fractional
\* seconds, cycles that take nothing, less than the interval, the interval
\* less a fraction of a second, the interval, and more
PaceCycles == 2

PaceIntervals == { Seconds(1), Seconds(1) + 1, Seconds(2), Seconds(3) }

PaceDurations ==
    { 0, 1, Seconds(1), Seconds(1) + 1, Seconds(2), Seconds(2) + 1, Seconds(5) }

\* inputs of SpecBatch: components that reach the two limits
BatchCycles == 1

Small == Component("n1", Cpu(3), 0, 120)
Many == Component("n1", Cpu(3), 5999, 200 * 1024)
Heavy == Component("n1", Cpu(3), 0, 400 * 1024)

\* with Many exactly the metric limit, with Heavy exactly the size limit
Exact == Component("n1", Cpu(3), 3999, 350 * 1024)

BatchOutputs ==
    { <<>>, <<Small>>, <<Many>>, <<Heavy>>, <<Small, Many>>, <<Heavy, Heavy>>,
      <<Many, Small>>, <<Many, Exact>>, <<Heavy, Exact>> }

\* inputs of SpecUpload: components without metrics, batches that the size
\* limit flushes, several batches in one drain, an upload that is switched
\* off, and every outcome of a POST
UploadCycles == 2

Hollow == Component("n1", [m \in {} |-> Sample(0, None, None)], 0, 400 * 1024)

\* skip_newrelic_upload set to a true value
ConfigSkip == ConfigOne \o << Item(<<"skip_newrelic_upload">>, <<Unnamed>>) >>

UploadConfigs == { ConfigOne, ConfigSkip }

UploadOutputs ==
    { <<Hollow>>, <<Hollow, Hollow>>, <<Hollow, Hollow, Small>>,
      <<Heavy, Heavy>>, <<Heavy, Heavy, Small>>,
      <<Heavy, Heavy, Heavy, Heavy, Small>>,
      <<Hollow, Hollow, Heavy, Heavy, Small>>, <<Small, Hollow, Hollow>> }

PostOutcomes == { Responds, ConnectionError, Timeout }

(***************************************************************************)
(* Observations: what a run has done so far, kept to state properties.     *)
(*   registry      the (configuration, names) pairs of the registry passes *)
(*   dispatched    the threads started in the current cycle                *)
(*   seen          per min/max key, the totals processed so far            *)
(*   derived       per processed sample, what arrived and what was emitted *)
(*   producers     per min/max key, the instances that produced it         *)
(*   removed_prev  instance names whose block reconciliation removed in    *)
(*                 the previous cycle; removed_now: in the current cycle   *)
(*   janitor_ran   clean_last_values ran in the current cycle              *)
(*   recon_log     the classifications logged by the last reconciliation   *)
(*   elapsed       how long the last cycle took                            *)
(*   handed        per thread of the current cycle that has run, the prior *)
(*                 state its plugin was constructed with                   *)
(*   drained       the (name, cycle) of every item taken off the publish   *)
(*                 queue                                                   *)
(*   cleaned       the (name, cycle) of every entry that clean_last_values *)
(*                 popped from derive_last_interval                        *)
(***************************************************************************)
InitObs ==
    [registry |-> {}, dispatched |-> <<>>, seen |-> EmptyMap,
     derived |-> {}, producers |-> EmptyMap, removed_prev |-> {},
     removed_now |-> {}, janitor_ran |-> FALSE, recon_log |-> <<>>,
     elapsed |-> 0, handed |-> {}, drained |-> {}, cleaned |-> {}]

InitWith(configs, intervals) ==
    /\ is_py2 \in BOOLEAN
    /\ config \in configs
    /\ thread_names = {}
    /\ threads = <<>>
    /\ running = {}
    /\ publish_queue = <<>>
    /\ config_queue = <<>>
    /\ derive_last_interval = EmptyMap
    /\ config_last_result = EmptyMap
    /\ clean_values = FALSE
    /\ min_max_values = EmptyMap
    /\ configured_interval \in intervals
    /\ next_wake_interval = IntPart(configured_interval)
    /\ pc = "idle"
    /\ cycle = 0
    /\ reloads = 0
    /\ sent = <<>>
    /\ posts = <<>>
    /\ obs = InitObs

(***************************************************************************)
(* process(), lines 199-200: the registry pass and the start of the        *)
(* threads.                                                                *)
(***************************************************************************)
StartPlugins(max_cycles) ==
    /\ pc = "idle"
    /\ cycle < max_cycles
    /\ LET started == start_plugins(thread_names, config)
           names == [i \in 1..Len(started) |-> started[i].name]
       IN  /\ thread_names' = ResetThreadNames(thread_names) \cup Range(names)
           /\ threads' = threads \o started
           /\ running' = running \cup Range(started)
           /\ obs' = [obs EXCEPT
                         !.registry = @ \cup {[cfg |-> config, names |-> names]},
                         !.dispatched = started,
                         !.removed_prev = obs.removed_now,
                         !.removed_now = {},
                         !.janitor_ran = FALSE,
                         !.recon_log = <<>>,
                         !.handed = {}]
    /\ pc' = "barrier"
    /\ cycle' = cycle + 1
    /\ sent' = <<>>
    /\ posts' = <<>>
    /\ UNCHANGED <<is_py2, config, publish_queue, config_queue,
                   derive_last_interval, config_last_result, clean_values,
                   min_max_values, configured_interval, next_wake_interval,
                   reloads>>

(***************************************************************************)
(* thread_metric_process: the plugin polls and the thread puts one item on *)
(* the publish queue. What the plugin returns is an input.                 *)
(***************************************************************************)
ThreadMetricProcess(outputs) ==
    \E t \in running : \E data \in outputs :
        /\ t.kind = "metric"
        /\ publish_queue' = Append(publish_queue,
               [name |-> t.name, data |-> data,
                last_values |-> [by |-> t.name, cyc |-> cycle]])
        /\ running' = running \ {t}
        /\ obs' = [obs EXCEPT !.handed = @ \cup
                       {[name |-> t.name,
                         prior |-> MapGet(derive_last_interval, t.name)]}]
        /\ UNCHANGED <<is_py2, config, thread_names, threads, config_queue,
                       derive_last_interval, config_last_result, clean_values,
                       min_max_values, configured_interval, next_wake_interval,
                       pc, cycle, reloads, sent, posts>>

\* thread_config_process
ThreadConfigProcess(results) ==
    \E t \in running : \E data \in results :
        /\ t.kind = "config"
        /\ config_queue' = Append(config_queue, [name |-> t.name, data |-> data])
        /\ running' = running \ {t}
        /\ UNCHANGED <<is_py2, config, thread_names, threads, publish_queue,
                       derive_last_interval, config_last_result, clean_values,
                       min_max_values, configured_interval, next_wake_interval,
                       pc, cycle, reloads, sent, posts, obs>>

\* the plugin raises inside the thread: the thread ends without a put
ThreadRaises ==
    \E t \in running :
        /\ running' = running \ {t}
        /\ obs' = IF t.kind = "metric"
                  THEN [obs EXCEPT !.handed = @ \cup
                           {[name |-> t.name,
                             prior |-> MapGet(derive_last_interval, t.name)]}]
                  ELSE obs
        /\ UNCHANGED <<is_py2, config, thread_names, threads, publish_queue,
                       config_queue, derive_last_interval, config_last_result,
                       clean_values, min_max_values, configured_interval,
                       next_wake_interval, pc, cycle, reloads, sent, posts>>

(***************************************************************************)
(* process(), lines 203-207: the barrier.                                  *)
(***************************************************************************)
BarrierClear ==
    /\ pc = "barrier"
    /\ ~threads_running(threads, running)
    /\ threads' = <<>>
    /\ pc' = "send"
    /\ UNCHANGED <<is_py2, config, thread_names, running, publish_queue,
                   config_queue, derive_last_interval, config_last_result,
                   clean_values, min_max_values, configured_interval,
                   next_wake_interval, cycle, reloads, sent, posts, obs>>

\* process(), line 210
SendData(outcomes) ==
    /\ pc = "send"
    /\ LET r == send_data_to_newrelic(min_max_values, publish_queue,
                                      obs.seen, obs.derived, obs.producers)
       IN  /\ min_max_values' = r.mm
           /\ sent' = r.calls
           /\ \E oc \in [1..Len(r.calls) -> outcomes] :
                  posts' = SendAll(config, r.calls, oc)
           /\ obs' = [obs EXCEPT
                         !.seen = r.seen, !.derived = r.derived,
                         !.producers = r.producers,
                         !.drained = @ \cup
                             { [name |-> publish_queue[i].name, cyc |-> cycle] :
                                 i \in 1..Len(publish_queue) }]
    /\ derive_last_interval' = StoreLastValues(derive_last_interval, publish_queue)
    /\ publish_queue' = <<>>
    /\ pc' = "reconcile"
    /\ UNCHANGED <<is_py2, config, thread_names, threads, running, config_queue,
                   config_last_result, clean_values, configured_interval,
                   next_wake_interval, cycle, reloads>>

\* process(), line 213
ProcessConfigPlugins ==
    /\ pc = "reconcile"
    /\ LET r == process_config_plugins(config, clean_values, config_last_result,
                                       config_queue)
           removed == { r.log[i].key : i \in { j \in 1..Len(r.log) :
                                                 r.log[j].action = "removed" } }
       IN  /\ config' = r.config
           /\ clean_values' = r.clean_values
           /\ config_last_result' = r.config_last_result
           /\ obs' = [obs EXCEPT
                         !.recon_log = r.log,
                         !.removed_now =
                             { t.name : t \in { u \in Range(obs.dispatched) :
                                                  u.block \in removed } }]
    /\ config_queue' = <<>>
    /\ pc' = "clean"
    /\ UNCHANGED <<is_py2, thread_names, threads, running, publish_queue,
                   derive_last_interval, min_max_values, configured_interval,
                   next_wake_interval, cycle, reloads, sent, posts>>

\* process(), lines 215-216
CleanValues ==
    /\ pc = "clean"
    /\ IF clean_values
       THEN \E r \in clean_last_values(is_py2, derive_last_interval,
                                       config_last_result, thread_names) :
               /\ derive_last_interval' = r.derive_last_interval
               /\ config_last_result' = r.config_last_result
               /\ clean_values' = r.clean_values
               /\ pc' = IF r.raised THEN "raised" ELSE "pace"
               /\ obs' = [obs EXCEPT
                             !.janitor_ran = TRUE,
                             !.cleaned = @ \cup
                                 { [name |-> n, cyc |-> cycle] :
                                     n \in (DOMAIN derive_last_interval) \
                                           (DOMAIN r.derive_last_interval) }]
       ELSE /\ pc' = "pace"
            /\ UNCHANGED <<derive_last_interval, config_last_result,
                           clean_values, obs>>
    /\ UNCHANGED <<is_py2, config, thread_names, threads, running,
                   publish_queue, config_queue, min_max_values,
                   configured_interval, next_wake_interval, cycle, reloads,
                   sent, posts>>

\* process(), lines 218-225; how long the cycle took is an input
Pace(durations) ==
    /\ pc = "pace"
    /\ \E duration \in durations :
           /\ next_wake_interval' = NextWake(configured_interval, duration)
           /\ obs' = [obs EXCEPT !.elapsed = duration]
    /\ pc' = "idle"
    /\ UNCHANGED <<is_py2, config, thread_names, threads, running,
                   publish_queue, config_queue, derive_last_interval,
                   config_last_result, clean_values, min_max_values,
                   configured_interval, cycle, reloads, sent, posts>>

\* configuration_reloaded, called by the controller when it reloads. The flag
\* is read only at line 215, so a call at any point of a cycle before that
\* line acts like a call before the cycle, and a later one like a call after
\* it: the model places the call between two cycles.
ConfigurationReloaded ==
    /\ pc = "idle"
    /\ reloads < MaxReloads
    /\ reloads' = reloads + 1
    /\ clean_values' = TRUE
    /\ UNCHANGED <<is_py2, config, thread_names, threads, running,
                   publish_queue, config_queue, derive_last_interval,
                   config_last_result, min_max_values, configured_interval,
                   next_wake_interval, pc, cycle, sent, posts, obs>>

NextWith(max_cycles, outputs, results, durations, outcomes) ==
    \/ StartPlugins(max_cycles)
    \/ ThreadMetricProcess(outputs)
    \/ ThreadConfigProcess(results)
    \/ ThreadRaises
    \/ BarrierClear
    \/ SendData(outcomes)
    \/ ProcessConfigPlugins
    \/ CleanValues
    \/ Pace(durations)
    \/ ConfigurationReloaded

Init == InitWith(InitConfigs, {Seconds(WAKE_INTERVAL)})

Next == NextWith(MaxCycles, MetricOutputs, ConfigResults, Durations, {Responds})

Spec == Init /\ [][Next]_vars

\* two cycles with their scheduling: every started thread comes to its end,
\* by returning or by raising, and process() goes from each of its
\* statements to the next
NextLive ==
    NextWith(LiveCycles, MetricOutputs, LiveResults, Durations, {Responds})

Fairness ==
    /\ WF_vars(ThreadMetricProcess(MetricOutputs)
               \/ ThreadConfigProcess(LiveResults)
               \/ ThreadRaises)
    /\ WF_vars(BarrierClear \/ SendData({Responds}) \/ ProcessConfigPlugins
               \/ CleanValues \/ Pace(Durations))

SpecLive == Init /\ [][NextLive]_vars /\ Fairness

NextCarry ==
    NextWith(CarryCycles, {<<>>}, CarryResults, Durations, {Responds})

SpecCarry == Init /\ [][NextCarry]_vars

InitRegistry == InitWith(RegistryConfigs, {Seconds(WAKE_INTERVAL)})

NextRegistry ==
    NextWith(RegistryCycles, RegistryOutputs, RegistryResults, Durations, {Responds})

SpecRegistry == InitRegistry /\ [][NextRegistry]_vars

InitMinMax == InitWith({ConfigOne}, {Seconds(WAKE_INTERVAL)})

NextMinMax == NextWith(MinMaxCycles, MinMaxOutputs, {NotADict}, Durations, {Responds})

SpecMinMax == InitMinMax /\ [][NextMinMax]_vars

InitPace == InitWith({ConfigOne}, PaceIntervals)

NextPace == NextWith(PaceCycles, {<<>>}, {NotADict}, PaceDurations, {Responds})

SpecPace == InitPace /\ [][NextPace]_vars

InitUpload == InitWith(UploadConfigs, {Seconds(WAKE_INTERVAL)})

NextUpload ==
    NextWith(UploadCycles, UploadOutputs, {NotADict}, Durations, PostOutcomes)

SpecUpload == InitUpload /\ [][NextUpload]_vars

InitBatch == InitWith({ConfigTwo}, {Seconds(WAKE_INTERVAL)})

NextBatch == NextWith(BatchCycles, BatchOutputs, {NotADict}, Durations, {Responds})

SpecBatch == InitBatch /\ [][NextBatch]_vars

(***************************************************************************)
(* Properties.                                                             *)
(***************************************************************************)
DispatchedNames == [i \in 1..Len(obs.dispatched) |-> obs.dispatched[i].name]

Distinct(seq) == \A i, j \in 1..Len(seq) : i # j => seq[i] # seq[j]

\* the names given in the current cycle to the instances of block key
NamesOfBlock(key) ==
    LET OfBlock(t) == t.block = key
        ths == SelectSeq(obs.dispatched, OfBlock)
    IN  [i \in 1..Len(ths) |-> ths[i].name]

\* the blocks of the live configuration that are dispatched and whose
\* instance configs all lack a name field
UnnamedBlocks ==
    { i \in 1..Len(config) :
        /\ config[i].key \notin IGNORE_KEYS
        /\ config[i].val # <<>>
        /\ PluginClass(config[i].key) # "none"
        /\ \A j \in 1..Len(config[i].val) : ~config[i].val[j].has_name }

UnnamedName(key, k) == key \o <<":", "unnamed", ":", FormatInt(k)>>

\* the names given in the current cycle before the first instance of key
NamesBefore(key) ==
    LET first == CHOOSE i \in 1..Len(obs.dispatched) :
                    /\ obs.dispatched[i].block = key
                    /\ \A j \in 1..(i - 1) : obs.dispatched[j].block # key
    IN  { obs.dispatched[j].name : j \in 1..(first - 1) }

NthSmallest(S, n) == CHOOSE k \in S : Cardinality({ x \in S : x < k }) = n - 1

\* C1 as stated: within one cycle all dispatched instance names differ, and
\* a block with N instance configs without a name field gets exactly the
\* names <block>:unnamed:0 .. <block>:unnamed:(N-1), in config order.
C1_UnnamedNamesAreZeroToN ==
    pc = "barrier" =>
        /\ Distinct(DispatchedNames)
        /\ \A b \in UnnamedBlocks :
              NamesOfBlock(config[b].key) =
                  [j \in 1..Len(config[b].val) |->
                      UnnamedName(config[b].key, j - 1)]

\* C1 amended: within one cycle all dispatched instance names differ, and a
\* block with N instance configs without a name field gets, in config
\* order, the names <block>:unnamed:k for the N smallest k that no instance
\* of an earlier block of the cycle was already named with.
C1_UnnamedNamesAreFirstFree ==
    pc = "barrier" =>
        /\ Distinct(DispatchedNames)
        /\ \A b \in UnnamedBlocks :
              LET key == config[b].key
                  free == { k \in 0..(2 * Len(obs.dispatched)) :
                              UnnamedName(key, k) \notin NamesBefore(key) }
              IN  NamesOfBlock(key) =
                      [j \in 1..Len(config[b].val) |->
                          UnnamedName(key, NthSmallest(free, j))]

\* a cycle in which an earlier block has taken <block>:unnamed:0
C1_Witness ==
    /\ pc = "barrier"
    /\ DispatchedNames = << UnnamedName(PromA, 0), UnnamedName(PromA, 1),
                            UnnamedName(PromA, 2) >>
    /\ NamesOfBlock(PromA) = << UnnamedName(PromA, 1), UnnamedName(PromA, 2) >>

\* C2: two registry passes that start from the same live configuration
\* (same blocks, same order, same content) give the same instance names.
C2_SameConfigSameNames ==
    \A p, q \in obs.registry : p.cfg = q.cfg => p.names = q.names

\* a second pass over the configuration of the first pass, after the
\* threads of the first cycle have come and gone
C2_Witness ==
    /\ cycle = 2
    /\ pc = "barrier"
    /\ Len(obs.dispatched) >= 2
    /\ obs.registry = { [cfg |-> config, names |-> DispatchedNames] }

\* C3: the stored minimum of every key is the smallest total processed for
\* that key.
C3_StoredMinIsSmallestSeen ==
    \A k \in DOMAIN min_max_values :
        min_max_values[k][1] = Some(SetMin(obs.seen[k]))

\* C4: the stored maximum of every key is the largest total processed for
\* that key, and it never decreases.
C4_StoredMaxIsLargestSeen ==
    /\ [](\A k \in DOMAIN min_max_values :
            min_max_values[k][2] = Some(SetMax(obs.seen[k])))
    /\ [][\A k \in DOMAIN min_max_values :
            /\ k \in DOMAIN min_max_values'
            /\ min_max_values'[k][2] # None
            /\ min_max_values[k][2] # None
            /\ min_max_values'[k][2][1] >= min_max_values[k][2][1]]_vars

\* a total below the stored maximum has been processed
C4_Witness ==
    \E d \in obs.derived :
        /\ d.total < d.run_max
        /\ d.key \in DOMAIN min_max_values
        /\ min_max_values[d.key][2] = Some(5)
        /\ obs.seen[d.key] = {0, 3, 5}

\* C5: a sample that arrives with min unset is emitted with min equal to
\* the smallest total processed so far for its key, the current one included.
C5_EmittedMinIsSmallestSeen ==
    \A d \in obs.derived : d.in_min = None => d.out_min = Some(d.run_min)

BatchSize(components) ==
    SeqSum([i \in 1..Len(components) |-> JsonLen(components[i])])

BatchMetrics(components) ==
    SeqSum([i \in 1..Len(components) |-> MetricCount(components[i])])

\* C6: no batch handed to send_components holds 10,000 or more metrics or
\* 750 KiB or more of serialized components.
C6_BatchesBelowLimits ==
    \A i \in 1..Len(sent) :
        /\ BatchMetrics(sent[i].components) < MAX_METRICS_PER_REQUEST
        /\ BatchSize(sent[i].components) < MAX_SIZE_PER_REQUEST

\* results whose proposed blocks are all non-empty
ProposedValues == { <<Unnamed>>, <<Unnamed, Unnamed>>, <<Named(<<"a">>)>> }

NonEmptyResults ==
    { Result(<< Item(k, v) >>) : k \in {Prom, PromA, Disc}, v \in ProposedValues }
    \cup { Result(<< Item(Prom, v), Item(PromA, w) >>) :
             v \in ProposedValues, w \in ProposedValues }

AllLogged(log, data, action) ==
    /\ Len(log) = Len(data.application)
    /\ \A i \in 1..Len(log) :
          /\ log[i].key = data.application[i].key
          /\ log[i].action = action

\* C7: reconciling the same non-empty result twice in a row, from a live
\* configuration that differs from it in every proposed block: the first
\* time every block is written, logged "updated" and the flag is set; the
\* second time every block is logged "unchanged", the configuration stays
\* as it is and the flag is not set.
C7_ReconcileTwice ==
    \A data \in NonEmptyResults :
        LET item == [name |-> UnnamedName(Disc, 0), data |-> data]
            app == data.application
            differs == \A i \in 1..Len(app) :
                          ~(Has(config, app[i].key)
                            /\ Lookup(config, app[i].key) = app[i].val)
            first == process_config_plugins(config, FALSE, config_last_result,
                                            <<item>>)
            second == process_config_plugins(first.config, FALSE,
                                             first.config_last_result, <<item>>)
        IN  differs =>
              /\ AllLogged(first.log, data, "updated")
              /\ first.clean_values
              /\ \A i \in 1..Len(app) :
                    /\ Has(first.config, app[i].key)
                    /\ Lookup(first.config, app[i].key) = app[i].val
              /\ AllLogged(second.log, data, "unchanged")
              /\ second.config = first.config
              /\ ~second.clean_values

\* the reconciliation of a cycle has found a block, written by an earlier
\* reconciliation of the same result, unchanged
C7_Witness ==
    /\ pc = "clean"
    /\ cycle >= 2
    /\ obs.recon_log = << [name |-> UnnamedName(Disc, 0), key |-> PromA,
                           action |-> "unchanged"] >>
    /\ ~clean_values

\* C8: the carried state of an instance whose block reconciliation removed
\* in the previous cycle, and which the registry pass of this cycle did not
\* name, is gone when this cycle ends.
C8_RemovedStateIsCleaned ==
    (pc = "idle" /\ cycle >= 2) =>
        \A n \in obs.removed_prev \ thread_names :
            n \notin DOMAIN derive_last_interval

\* C9: once the clean-up has run in a cycle whose registry pass did not name
\* an instance of a block removed in the previous cycle, no min/max key that
\* only that instance produced is left.
C9_RemovedMinMaxIsCleaned ==
    (obs.janitor_ran /\ pc \in {"pace", "idle"}) =>
        \A n \in obs.removed_prev \ thread_names :
            \A k \in DOMAIN min_max_values : obs.producers[k] # {n}

\* C10: outside the barrier no thread is running: the queues are drained,
\* and everything after the drain happens, only when every thread
\* dispatched in the cycle has finished.
C10_DrainAfterBarrier ==
    pc # "barrier" => running = {}

\* the drain is about to take an item from each queue
C10_Witness ==
    /\ pc = "send"
    /\ publish_queue # <<>>
    /\ config_queue # <<>>
    /\ Len(obs.dispatched) = 2

\* the number of items that instance name has on the publish queue
PutsOf(name) ==
    Cardinality({ i \in 1..Len(publish_queue) : publish_queue[i].name = name })

\* the metric threads dispatched in the current cycle
MetricThreads == { t \in Range(obs.dispatched) : t.kind = "metric" }

\* C11: every metric thread of the cycle that has finished has put exactly
\* one item for its instance name on the publish queue, so that when the
\* barrier has cleared the queue holds one item per dispatched metric
\* instance.
C11_OnePutPerFinishedThread ==
    /\ pc = "barrier" =>
          \A t \in MetricThreads \ running : PutsOf(t.name) = 1
    /\ pc = "send" =>
          /\ \A t \in MetricThreads : PutsOf(t.name) = 1
          /\ Len(publish_queue) = Cardinality(MetricThreads)

\* the block keys named by the application sections of the results on the
\* config queue
NamedKeys(queue) ==
    UNION { Keys(queue[i].data.application) :
              i \in { j \in 1..Len(queue) : queue[j].data.is_dict } }

\* C12: reconciliation leaves every block of the live configuration that no
\* drained result names in place, with the value it had.
C12_UnnamedBlocksKept ==
    [][pc = "reconcile" =>
          \A k \in Keys(config) \ NamedKeys(config_queue) :
              /\ Has(config', k)
              /\ Lookup(config', k) = Lookup(config, k)]_vars

\* reconciliation has removed one block and kept the two that the result
\* did not name, one of them written by an earlier reconciliation
C12_Witness ==
    /\ pc = "clean"
    /\ \E i \in 1..Len(obs.recon_log) :
          /\ obs.recon_log[i].action = "removed"
          /\ obs.recon_log[i].key = Prom
    /\ Keys(config) = {Disc, PromA}

\* what the last reconciliation did last to block key: "updated", "removed",
\* "unchanged", or "none" when it did not log the key
LastAction(log, key) ==
    LET at == { i \in 1..Len(log) : log[i].key = key }
    IN  IF at = {} THEN "none" ELSE log[SetMax(at)].action

\* the threads of seq that belong to block key
ThreadsOfBlock(seq, key) == { i \in 1..Len(seq) : seq[i].block = key }

\* C13: the registry pass that follows a reconciliation starts one thread
\* per instance config of every block the reconciliation wrote (when the
\* key resolves and is not ignored) and no thread for a block it removed;
\* the reconciliation itself leaves the threads and names of its own cycle
\* as they are.
C13_NextCycleSeesReconciliation ==
    /\ [][(pc = "idle" /\ pc' = "barrier") =>
            \A k \in { obs.recon_log[i].key : i \in 1..Len(obs.recon_log) } :
               /\ (LastAction(obs.recon_log, k) = "updated"
                   /\ k \notin IGNORE_KEYS /\ PluginClass(k) # "none") =>
                     /\ Cardinality(ThreadsOfBlock(obs'.dispatched, k)) =
                            Len(Lookup(config, k))
                     /\ \A i \in ThreadsOfBlock(obs'.dispatched, k) :
                            obs'.dispatched[i] \in running'
               /\ LastAction(obs.recon_log, k) = "removed" =>
                     ThreadsOfBlock(obs'.dispatched, k) = {}]_vars
    /\ [][pc = "reconcile" =>
            /\ UNCHANGED <<threads, running, thread_names, publish_queue>>
            /\ obs'.dispatched = obs.dispatched]_vars

\* the second cycle has started a thread for prometheus:a, a block that
\* only the reconciliation of the first cycle can have added
C13_Witness ==
    /\ pc = "barrier"
    /\ cycle = 2
    /\ ThreadsOfBlock(obs.dispatched, PromA) # {}
    /\ ThreadsOfBlock(obs.dispatched, Prom) # {}

C15_NoPostWithoutMetrics ==
    \A i \in 1..Len(posts) :
        /\ posts[i].call.metrics # 0
        /\ BatchMetrics(posts[i].call.components) # 0

\* the size limit has flushed a batch of components without metrics, which
\* was handed to send_components and not posted, and a batch with metrics
\* of the same drain was posted
C15_Witness ==
    /\ pc = "reconcile"
    /\ \E i \in 1..Len(sent) :
          /\ ~sent[i].remainder
          /\ sent[i].metrics = 0
          /\ Len(sent[i].components) = 2
    /\ Len(posts) = 1
    /\ Len(sent) = 2

\* the calls of seq that send_components posts under configuration cfg
Eligible(cfg, seq) ==
    LET Ok(call) == call.metrics # 0 /\ ~SkipUpload(cfg)
    IN  SelectSeq(seq, Ok)

\* the number of components in the batches of seq
ComponentsIn(seq) == SeqSum([i \in 1..Len(seq) |-> Len(seq[i].components)])

\* C16: every batch handed to send_components that has metrics is posted
\* exactly once, in order, however the POSTs before it ended; the drain
\* leaves nothing on the queue, sends no component that was not on the queue
\* of this cycle, and is followed by the reconciliation.
C16_OnePostPerBatch ==
    /\ [](/\ [i \in 1..Len(posts) |-> posts[i].call] = Eligible(config, sent)
          /\ pc \notin {"barrier", "send"} => publish_queue = <<>>)
    /\ [][pc = "send" =>
            /\ pc' = "reconcile"
            /\ ComponentsIn(sent') <= Len(QueueComponents(publish_queue))]_vars

\* in a second cycle, the first POST of a drain met a connection error, the
\* second a timeout, and the batch after them was posted
C16_Witness ==
    /\ pc = "reconcile"
    /\ cycle = 2
    /\ Len(posts) = 3
    /\ posts[1].outcome = ConnectionError
    /\ posts[2].outcome = Timeout
    /\ posts[3].outcome = Responds

\* C17: when every thread of a cycle comes to its end, by returning or by
\* raising, the cycle passes the barrier and then completes the drain, the
\* reconciliation, the clean-up and the pacing.
C17_CycleCompletes ==
    (pc = "barrier") ~> (pc = "idle")

\* the entries of map f under the names of the current registry pass
LiveEntries(f) == Restrict(f, (DOMAIN f) \cap thread_names)

\* C18: clean_last_values runs in a cycle only when clean_values is set
\* after the reconciliation; once it has run, the keys of
\* derive_last_interval and of config_last_result are names of the cycle's
\* registry pass, the entries under those names are as they were, and
\* clean_values is clear; clean_values is clear when the clean-up step of
\* every cycle is over.
C18_JanitorLeavesLiveNames ==
    /\ [](/\ (obs.janitor_ran /\ pc \in {"pace", "idle", "raised"}) =>
                /\ DOMAIN derive_last_interval \subseteq thread_names
                /\ DOMAIN config_last_result \subseteq thread_names
          /\ pc \in {"pace", "raised"} => ~clean_values)
    /\ [][pc = "clean" =>
            /\ obs'.janitor_ran = clean_values
            /\ LiveEntries(derive_last_interval') =
                   LiveEntries(derive_last_interval)
            /\ LiveEntries(config_last_result') =
                   LiveEntries(config_last_result)]_vars

\* block keys that a result may name
ProposedKeys == {Prom, PromA, Disc, <<"nosuch">>}

\* results that propose no change to configuration cfg: results that are
\* not a dict or have no application section, blocks equal to the live
\* ones, empty blocks for keys that cfg does not have
NoChangeResults(cfg) ==
    {NotADict, Result(<<>>)}
    \cup { Result(<< Item(k, Lookup(cfg, k)) >>) :
             k \in { j \in Keys(cfg) : Lookup(cfg, j) # <<>> } }
    \cup { Result(<< Item(k, <<>>) >>) : k \in ProposedKeys \ Keys(cfg) }

\* results that propose a change to cfg: a new block, a block with another
\* value, the removal of a block that cfg has
ChangeResults(cfg) ==
    { Result(<< Item(k, v) >>) :
        k \in ProposedKeys \ Keys(cfg), v \in ProposedValues }
    \cup UNION { { Result(<< Item(k, v) >>) :
                     v \in ProposedValues \ {Lookup(cfg, k)} } : k \in Keys(cfg) }
    \cup { Result(<< Item(k, <<>>) >>) : k \in Keys(cfg) }

\* C19: the reconciliation of a cycle sets clean_values exactly when it
\* changes the live configuration; a result that proposes no change leaves
\* the configuration and the flag as they are, and a result that proposes
\* a change changes the configuration and sets the flag.
C19_FlagSetIffConfigChanged ==
    /\ [](\A flag \in BOOLEAN :
            LET Apply(data) ==
                    process_config_plugins(config, flag, config_last_result,
                        << [name |-> UnnamedName(Disc, 0), data |-> data] >>)
            IN  /\ \A data \in NoChangeResults(config) :
                      /\ Apply(data).config = config
                      /\ Apply(data).clean_values = flag
                /\ \A data \in ChangeResults(config) :
                      /\ Apply(data).config # config
                      /\ Apply(data).clean_values)
    /\ [][pc = "reconcile" =>
            clean_values' = (clean_values \/ config' # config)]_vars

\* the reconciliation of a third cycle has removed the block prometheus
\* from a configuration to which an earlier one had added prometheus:a,
\* and has set the flag
C19_Witness ==
    /\ pc = "clean"
    /\ cycle = 3
    /\ clean_values
    /\ Len(obs.recon_log) = 1
    /\ obs.recon_log[1].action = "removed"
    /\ ~Has(config, Prom)
    /\ Has(config, PromA)

\* a batch without its last component
ButLast(components) == SubSeq(components, 1, Len(components) - 1)

\* C20: the limits are tested after each append. A batch flushed inside the
\* loop holds the component that made the count reach 10,000 or the size
\* reach 750 KiB: it is at or above a limit, and without its last component
\* it is below both. Its count is that of its own components, the
\* accumulators having been reset by the flush before it. Only the
\* remainder, the last batch, is below both limits.
C20_FlushAfterAppend ==
    \A i \in 1..Len(sent) :
        LET batch == sent[i].components
        IN  /\ batch # <<>>
            /\ sent[i].metrics = BatchMetrics(batch)
            /\ BatchMetrics(ButLast(batch)) < MAX_METRICS_PER_REQUEST
            /\ BatchSize(ButLast(batch)) < MAX_SIZE_PER_REQUEST
            /\ ~sent[i].remainder =>
                  \/ BatchMetrics(batch) >= MAX_METRICS_PER_REQUEST
                  \/ BatchSize(batch) >= MAX_SIZE_PER_REQUEST
            /\ sent[i].remainder =>
                  /\ i = Len(sent)
                  /\ BatchMetrics(batch) < MAX_METRICS_PER_REQUEST
                  /\ BatchSize(batch) < MAX_SIZE_PER_REQUEST

\* one drain has flushed a batch of exactly 10,000 metrics and a batch of
\* exactly 750 KiB, each on the append of its second component
C20_Witness ==
    /\ pc = "reconcile"
    /\ Len(sent) = 2
    /\ \E i, j \in 1..Len(sent) :
          /\ BatchMetrics(sent[i].components) = MAX_METRICS_PER_REQUEST
          /\ Len(sent[i].components) = 2
          /\ BatchSize(sent[j].components) = MAX_SIZE_PER_REQUEST
          /\ Len(sent[j].components) = 2
          /\ ~sent[i].remainder
          /\ ~sent[j].remainder

\* the cycles before the current one in which an item of instance name was
\* drained
DrainedBefore(name) ==
    { d.cyc : d \in { e \in obs.drained : e.name = name /\ e.cyc < cycle } }

\* the state that the most recent earlier drain stored under name, or None
\* when there was no such drain or clean_last_values has popped the entry
\* since
PriorOf(name) ==
    IF DrainedBefore(name) = {} THEN None
    ELSE LET last == SetMax(DrainedBefore(name))
         IN  IF \E c \in obs.cleaned : c.name = name /\ c.cyc >= last
             THEN None
             ELSE Some([by |-> name, cyc |-> last])

\* C21: the prior state a metric plugin is constructed with is the state of
\* the most recent item drained under its instance name in an earlier
\* cycle, or None when there was none or the clean-up has deleted it since;
\* an instance that put nothing in a cycle keeps its older state, and a
\* state is never handed to an instance with another name.
C21_PriorStateIsLastDrained ==
    \A h \in obs.handed :
        /\ h.prior = PriorOf(h.name)
        /\ h.prior # None => h.prior[1].by = h.name

\* in the third cycle an instance is handed no state: its block was
\* removed after its item of the first cycle was drained, the clean-up of
\* the second cycle popped its entry, and its block was added again
C21_Witness ==
    /\ cycle = 3
    /\ [name |-> UnnamedName(Prom, 0), prior |-> None] \in obs.handed
    /\ [name |-> UnnamedName(Prom, 0), cyc |-> 1] \in obs.drained
    /\ [name |-> UnnamedName(Prom, 0), cyc |-> 2] \in obs.cleaned

\* the components of the batches of seq, in order
RECURSIVE Concat(_)
Concat(seq) ==
    IF seq = <<>> THEN <<>> ELSE Head(seq).components \o Concat(Tail(seq))

\* a component without the min and max that process_min_max_values fills in
Plain(component) ==
    [guid |-> component.guid, name |-> component.name,
     totals |-> [m \in DOMAIN component.metrics |-> component.metrics[m].total],
     others |-> component.others, size |-> component.size]

PlainSeq(components) ==
    [i \in 1..Len(components) |-> Plain(components[i])]

\* the batches of seq that have metrics
WithMetrics(seq) ==
    LET HasMetrics(call) == call.metrics # 0 IN SelectSeq(seq, HasMetrics)

\* the components of seq that are not in a batch without metrics of calls,
\* the batches of calls being consecutive runs of seq from its start
RECURSIVE DropEmptyBatches(_, _)
DropEmptyBatches(seq, calls) ==
    IF calls = <<>> THEN <<>>
    ELSE LET n == Len(Head(calls).components)
         IN  (IF Head(calls).metrics # 0 THEN SubSeq(seq, 1, n) ELSE <<>>)
             \o DropEmptyBatches(SubSeq(seq, n + 1, Len(seq)), Tail(calls))

\* C22: the drain hands every component of the queue, in arrival order, to
\* send_components once. The batches are consecutive runs of the queue's
\* components from its start; what follows the last batch is a remainder
\* without metrics; the batches with metrics, in order, are the queue's
\* components without those of the batches without metrics; and the queue
\* is empty afterwards.
C22_BatchesAreTheQueue ==
    [][pc = "send" =>
          LET drained == QueueComponents(publish_queue)
              queue == [i \in 1..Len(drained) |-> drained[i].component]
              all == Concat(sent')
          IN  /\ Len(all) <= Len(queue)
              /\ PlainSeq(all) = PlainSeq(SubSeq(queue, 1, Len(all)))
              /\ BatchMetrics(SubSeq(queue, Len(all) + 1, Len(queue))) = 0
              /\ PlainSeq(Concat(WithMetrics(sent'))) =
                     PlainSeq(DropEmptyBatches(queue, sent'))
              /\ \A i \in 1..Len(sent') :
                     sent'[i].metrics = BatchMetrics(sent'[i].components)
              /\ publish_queue' = <<>>]_vars

\* a drain of five components has dropped a batch of two without metrics and
\* handed over the three that follow in two batches
C22_Witness ==
    /\ pc = "reconcile"
    /\ Len(sent) = 3
    /\ sent[1].metrics = 0
    /\ Len(Concat(sent)) = 5
    /\ Len(Concat(WithMetrics(sent))) = 3

====
